---- MODULE Spec2Model ----
(***************************************************************************)
(* S3Service (src/src/s3/s3.service.ts): uploadToS3, getFromS3,            *)
(* getFromS3AsBinary and getMostRecentFile, each a single request sent     *)
(* through the injected S3Client, run by concurrent callers against one    *)
(* remote object store.                                                    *)
(*                                                                         *)
(* Bytes are integers 0..255, text is a sequence of code points, a key is  *)
(* a sequence of one-character strings, an error message is a sequence of  *)
(* string pieces (a template string is the concatenation of its pieces).   *)
(***************************************************************************)
EXTENDS Integers, Sequences, FiniteSets

\* ------------------------------------------------------------------ bounds
\* Most entries in one listing page.
MaxList == 3

\* ------------------------------------------------------- callers and inputs
\* The concurrent invocations of the service's methods.
Inv == {1, 2}

Buckets == {"bucket"}
ObjKeys == {"k1", "k2"}
ObjRefs == Buckets \X ObjKeys
OneRef == {<<"bucket", "k1">>}
ContentTypes == {"text/plain", "application/pdf"}

\* The empty object, a stray UTF-8 continuation byte, and the two bytes of U+00E9.
Payloads == {<<>>, <<169>>, <<195, 169>>}

\* ------------------------------------------------------------------ errors
\* An Error object: who constructed it and its message.
StoreError(msg) == [origin |-> "store", message |-> <<msg>>]
NoError == [origin |-> "none", message |-> <<>>]

NetworkFailure == StoreError("socket hang up")
NoSuchKey == StoreError("The specified key does not exist.")
AccessDenied == StoreError("Access Denied")

UploadPrefix == "Error uploading to S3: "
DownloadPrefix == "Error retrieving from S3: "

\* Faulty variant: the catch block rethrows what it caught.
Rethrow(error) == error

\* new Error(`Error uploading to S3: ${error.message}`)
WrapUpload(error) ==
    [origin |-> "S3Service", message |-> <<UploadPrefix>> \o error.message]

\* new Error(`Error retrieving from S3: ${error.message}`)
WrapDownload(error) ==
    [origin |-> "S3Service", message |-> <<DownloadPrefix>> \o error.message]

\* new Error('Unexpected response body type')
UnexpectedBody ==
    [origin |-> "S3Service", message |-> <<"Unexpected response body type">>]

\* ----------------------------------------------------------------- results
\* What an invocation's promise settles with.
NoResult == [tag |-> "none", val |-> <<>>, key |-> <<>>, error |-> NoError]
Rejected(e) == [tag |-> "error", val |-> <<>>, key |-> <<>>, error |-> e]
Metadata == [tag |-> "metadata", val |-> <<>>, key |-> <<>>, error |-> NoError]
TextValue(t) == [tag |-> "text", val |-> t, key |-> <<>>, error |-> NoError]
BinaryValue(b) == [tag |-> "binary", val |-> b, key |-> <<>>, error |-> NoError]
KeyValue(k) == [tag |-> "key", val |-> <<>>, key |-> k, error |-> NoError]
Undefined == [tag |-> "undefined", val |-> <<>>, key |-> <<>>, error |-> NoError]

\* ------------------------------------------------------------ byte buffers
\* Buffer.concat(chunks)
RECURSIVE BufferConcat(_)
BufferConcat(chunks) ==
    IF chunks = <<>> THEN <<>> ELSE Head(chunks) \o BufferConcat(Tail(chunks))

ReplacementChar == 65533

IsContinuation(b) == b >= 128 /\ b <= 191
IsLead2(b) == b >= 194 /\ b <= 223

\* buffer.toString('utf-8') for bytes below 224: one-byte and two-byte
\* sequences decode to their code point, every byte that starts no well-formed
\* sequence decodes to U+FFFD.
RECURSIVE Utf8Decode(_)
Utf8Decode(bytes) ==
    IF bytes = <<>> THEN <<>>
    ELSE LET b == Head(bytes)
         IN  IF b < 128 THEN <<b>> \o Utf8Decode(Tail(bytes))
             ELSE IF IsLead2(b) /\ Len(bytes) >= 2 /\ IsContinuation(bytes[2])
                  THEN <<(b - 192) * 64 + (bytes[2] - 128)>> \o Utf8Decode(Tail(Tail(bytes)))
                  ELSE <<ReplacementChar>> \o Utf8Decode(Tail(bytes))

\* Buffer.concat(chunks).toString('utf-8')
ChunksToText(chunks) == Utf8Decode(BufferConcat(chunks))

\* Buffer.concat(chunks)
ChunksToBinary(chunks) == BufferConcat(chunks)

\* -------------------------------------------------------------------- keys
\* The object keys a listing may hold, spelled character by character.
KeyJan == <<"a", "_", "2", "0", "2", "4", "-", "0", "1", "-", "0", "1", ".", "p", "d", "f">>
KeyNoDate == <<"b", "_", "x", ".", "p", "d", "f">>
KeyJun == <<"c", "_", "2", "0", "2", "4", "-", "0", "6", "-", "1", "5", ".", "p", "d", "f">>
KeyJunToo == <<"d", "_", "2", "0", "2", "4", "-", "0", "6", "-", "1", "5", ".", "p", "d", "f">>
KeyPlainDec == <<"e", "2", "0", "2", "4", "-", "1", "2", "-", "3", "1", ".", "p", "d", "f">>
KeyPlain == <<"r", "e", "p", "o", "r", "t", ".", "p", "d", "f">>

ListedKeys == {KeyJan, KeyNoDate, KeyJun, KeyJunToo, KeyPlainDec, KeyPlain}
FewKeys == {KeyJan, KeyJun}

Prefixes == {<<>>}

\* The listings of at most n distinct keys of K, in any order.
RECURSIVE ListingsUpTo(_, _)
ListingsUpTo(K, n) ==
    IF n = 0 THEN {<<>>}
    ELSE LET shorter == ListingsUpTo(K, n - 1)
             Range(t) == {t[i] : i \in 1..Len(t)}
         IN  shorter \cup
             UNION {{Append(t, k) : k \in K \ Range(t)} :
                    t \in {u \in shorter : Len(u) = n - 1}}

\* response.Contents: absent, or the listed keys.
NoContents == [present |-> FALSE, keys |-> <<>>]
Contents(keys) == [present |-> TRUE, keys |-> keys]
ContentsOf(K) == {NoContents} \cup {Contents(l) : l \in ListingsUpTo(K, MaxList)}

\* ------------------------------------------------------- String.prototype
\* key.includes('_')
Includes(key, ch) == \E i \in 1..Len(key) : key[i] = ch

\* A relative index of slice, resolved against the length.
SliceIndex(len, k) ==
    IF k < 0 THEN (IF len + k < 0 THEN 0 ELSE len + k)
    ELSE (IF k > len THEN len ELSE k)

\* s.slice(from, to), 0-based and end-exclusive.
Slice(s, from, to) ==
    LET lo == SliceIndex(Len(s), from)
        hi == SliceIndex(Len(s), to)
    IN  IF lo >= hi THEN <<>> ELSE SubSeq(s, lo + 1, hi)

SliceStart == -14
SliceEnd == -4

\* a.slice(-14, -4)
DateToken(key) == Slice(key, SliceStart, SliceEnd)

\* ------------------------------------------------------------------- Date
Digits == <<"0", "1", "2", "3", "4", "5", "6", "7", "8", "9">>
IsDigit(c) == \E d \in 1..10 : Digits[d] = c
DigitVal(c) == (CHOOSE d \in 1..10 : Digits[d] = c) - 1

RECURSIVE Number(_)
Number(cs) ==
    IF cs = <<>> THEN 0 ELSE 10 * Number(SubSeq(cs, 1, Len(cs) - 1)) + DigitVal(cs[Len(cs)])

\* Days from 1970-01-01 to the civil date y-m-d.
DaysFromCivil(y, m, d) ==
    LET yy == IF m <= 2 THEN y - 1 ELSE y
        era == yy \div 400
        yoe == yy - era * 400
        mp == IF m > 2 THEN m - 3 ELSE m + 9
        doy == (153 * mp + 2) \div 5 + d - 1
        doe == yoe * 365 + yoe \div 4 - yoe \div 100 + doy
    IN  era * 146097 + doe - 719468

\* The date-only form YYYY-MM-DD.
IsIsoDate(s) ==
    /\ Len(s) = 10
    /\ \A i \in {1, 2, 3, 4, 6, 7, 9, 10} : IsDigit(s[i])
    /\ s[5] = "-" /\ s[8] = "-"
    /\ Number(SubSeq(s, 6, 7)) \in 1..12
    /\ Number(SubSeq(s, 9, 10)) \in 1..31

\* new Date(s).getTime(): the UTC midnight of a date-only string, counted in
\* days (86400000 ms each, the sort reads only the sign of a difference);
\* NaN for a string that holds no date (the listed keys carry no other shape).
InvalidDate == [nan |-> TRUE, time |-> 0]
GetTime(s) ==
    IF IsIsoDate(s)
    THEN [nan |-> FALSE,
          time |-> DaysFromCivil(Number(SubSeq(s, 1, 4)),
                                 Number(SubSeq(s, 6, 7)),
                                 Number(SubSeq(s, 9, 10)))]
    ELSE InvalidDate

\* ------------------------------------------------- files.sort((a, b) => ...)
\* dateB.getTime() - dateA.getTime(): NaN as soon as one date is invalid.
CompareFn(a, b) ==
    LET dateA == GetTime(DateToken(a))
        dateB == GetTime(DateToken(b))
    IN  IF dateA.nan \/ dateB.nan THEN [nan |-> TRUE, v |-> 0]
        ELSE [nan |-> FALSE, v |-> dateB.time - dateA.time]

\* What sort makes of the comparator's answer: NaN counts as +0.
SortCompare(a, b) ==
    LET c == CompareFn(a, b) IN IF c.nan THEN 0 ELSE c.v

Elements(s) == {s[i] : i \in 1..Len(s)}

\* The comparator is a consistent comparison function for the elements of s.
Consistent(s) ==
    \A a, b, c \in Elements(s) :
        /\ SortCompare(a, a) = 0
        /\ (SortCompare(a, b) = 0) = (SortCompare(b, a) = 0)
        /\ (SortCompare(a, b) < 0) = (SortCompare(b, a) > 0)
        /\ (SortCompare(a, b) = 0 /\ SortCompare(b, c) = 0) => SortCompare(a, c) = 0
        /\ (SortCompare(a, b) < 0 /\ SortCompare(b, c) < 0) => SortCompare(a, c) < 0
        /\ (SortCompare(a, b) > 0 /\ SortCompare(b, c) > 0) => SortCompare(a, c) > 0
        /\ (SortCompare(a, b) = 0 /\ SortCompare(b, c) < 0) => SortCompare(a, c) < 0
        /\ (SortCompare(a, b) < 0 /\ SortCompare(b, c) = 0) => SortCompare(a, c) < 0

\* x put behind every element that does not sort after it.
RECURSIVE InsertSorted(_, _)
InsertSorted(sorted, x) ==
    IF sorted = <<>> THEN <<x>>
    ELSE LET last == sorted[Len(sorted)]
         IN  IF SortCompare(last, x) > 0
             THEN Append(InsertSorted(SubSeq(sorted, 1, Len(sorted) - 1), x), last)
             ELSE Append(sorted, x)

\* The stable sort of s under a consistent comparator.
RECURSIVE StableSort(_)
StableSort(s) ==
    IF s = <<>> THEN <<>>
    ELSE InsertSorted(StableSort(SubSeq(s, 1, Len(s) - 1)), s[Len(s)])

Orderings(s) ==
    {[i \in 1..Len(s) |-> s[f[i]]] :
        f \in {g \in [1..Len(s) -> 1..Len(s)] : \A i, j \in 1..Len(s) : g[i] = g[j] => i = j}}

\* Array.prototype.sort: stable under a consistent comparator; under an
\* inconsistent one the order is implementation-defined, any permutation.
SortOutcomes(s) ==
    IF Consistent(s) THEN {StableSort(s)} ELSE Orderings(s)

\* response.Contents.map((item) => item.Key!).filter((key) => key.includes('_'))
RECURSIVE Filter(_)
Filter(keys) ==
    IF keys = <<>> THEN <<>>
    ELSE IF Includes(Head(keys), "_") THEN <<Head(keys)>> \o Filter(Tail(keys))
         ELSE Filter(Tail(keys))

\* sortedFiles[0]
First(sortedFiles) ==
    IF sortedFiles = <<>> THEN Undefined ELSE KeyValue(sortedFiles[1])

\* Faulty variant: the empty listing is not told apart and the first listed
\* key is returned whatever the filter and the sort made of the listing.
FirstListed(contents) ==
    IF contents.keys = <<>> THEN {Undefined} ELSE {KeyValue(contents.keys[1])}

\* What getMostRecentFile can return on a listing response.
MostRecentResults(contents) ==
    IF ~contents.present \/ Len(contents.keys) = 0 THEN {Undefined}
    ELSE {First(sortedFiles) : sortedFiles \in SortOutcomes(Filter(contents.keys))}

\* ---------------------------------------------------------------- commands
NoArgs == [bucketName |-> "", filePath |-> "", data |-> <<>>, mimeType |-> "", prefix |-> <<>>]
NoRequest ==
    [command |-> "none", Bucket |-> "", Key |-> "", Body |-> <<>>, ContentType |-> "", Prefix |-> <<>>]

\* Faulty variant: the body is cut to its first byte.
PutFirstByte(bucketName, filePath, data, mimeType) ==
    [command |-> "PutObject", Bucket |-> bucketName, Key |-> filePath,
     Body |-> IF Len(data) > 1 THEN <<data[1]>> ELSE data, ContentType |-> mimeType, Prefix |-> <<>>]

\* new PutObjectCommand({Bucket, Key, Body, ContentType})
PutInput(bucketName, filePath, data, mimeType) ==
    [command |-> "PutObject", Bucket |-> bucketName, Key |-> filePath,
     Body |-> data, ContentType |-> mimeType, Prefix |-> <<>>]

\* new GetObjectCommand({Bucket, Key})
GetInput(bucketName, filePath) ==
    [command |-> "GetObject", Bucket |-> bucketName, Key |-> filePath,
     Body |-> <<>>, ContentType |-> "", Prefix |-> <<>>]

\* new ListObjectsV2Command({Bucket, Prefix})
ListInput(bucketName, prefix) ==
    [command |-> "ListObjectsV2", Bucket |-> bucketName, Key |-> "",
     Body |-> <<>>, ContentType |-> "", Prefix |-> prefix]

\* ------------------------------------------------------------ catch blocks
\* Faulty variant: the failure is swallowed and the promise resolves.
Swallow(error) == Undefined

\* uploadToS3: catch (error) { throw new Error(...) }
UploadCatch(error) == Rejected(WrapUpload(error))

\* getFromS3, getFromS3AsBinary: catch (error) { throw new Error(...) }
DownloadCatch(error) == Rejected(WrapDownload(error))

\* Faulty variant: the listing failure is wrapped like a download failure.
ListWrapped(error) == Rejected(WrapDownload(error))

\* getMostRecentFile awaits send outside any try: the rejection is the caller's.
ListFailure(error) == Rejected(error)

\* Faulty variant: a body that is no stream yields an empty result.
EmptyResult(method) == IF method = "getFromS3" THEN TextValue(<<>>) ELSE BinaryValue(<<>>)

\* else { throw new Error('Unexpected response body type') }, caught below it.
NoStreamBody(method) == DownloadCatch(UnexpectedBody)

\* The value returned once the for-await loop has ended.
Drained(method, chunks) ==
    IF method = "getFromS3" THEN TextValue(ChunksToText(chunks))
    ELSE BinaryValue(ChunksToBinary(chunks))

\* Faulty variant: the loop is left as soon as one chunk has been read.
EndedOrRead(remaining, chunks) == remaining = <<>> \/ chunks # <<>>

\* The for-await loop ends when the stream has delivered all of the body.
LoopEnded(remaining, chunks) == remaining = <<>>

\* Faulty variant: the chunk array is shared by all invocations.
PushShared(all, i, chunk) == [j \in DOMAIN all |-> Append(all[j], chunk)]

\* chunks.push(chunk), on the invocation's own array.
Push(all, i, chunk) == [all EXCEPT ![i] = Append(@, chunk)]

\* ------------------------------------------------------------------- state
VARIABLES
    client,     \* the service's fields: s3Client and region
    store,      \* the remote store: the object held at each (bucket, key)
    method,     \* per invocation: the method running, "" when none
    args,       \* per invocation: the arguments of the call
    req,        \* per invocation: the command handed to s3Client.send
    pc,         \* per invocation: "idle", "sent", "stored", "stream", "done"
    nsent,      \* per invocation: the number of calls of s3Client.send
    stream,     \* per invocation: the bytes the response stream still holds
    chunks,     \* per invocation: the chunks array of the for-await loop
    result,     \* per invocation: what the promise settled with
    cause,      \* history: the error the invocation met, and where
    got,        \* history: the chunks the stream delivered, in order
    put,        \* history: what the store wrote on behalf of the invocation
    resp,       \* history: the Contents of the listing response
    upl,        \* history: per object, the payload of the last upload that
                \*   completed successfully with no other upload to the object
                \*   during it or since
    clean,      \* history: no other upload to the object ran during this one
    expect      \* history: upl of the object when the get was answered

vars == <<client, store, method, args, req, pc, nsent, stream, chunks, result,
          cause, got, put, resp, upl, clean, expect>>

Absent == [present |-> FALSE, bytes |-> <<>>]
\* Where an invocation met an error: in send, in the stream, or in the body check.
NoCause == [at |-> "none", error |-> NoError]
Raised(at, error) == [at |-> at, error |-> error]
Object(bytes) == [present |-> TRUE, bytes |-> bytes]
Regions == {"us-east-1"}

Init ==
    /\ client \in {[s3Client |-> "S3Client", region |-> r] : r \in Regions}
    /\ store = [o \in ObjRefs |-> Absent]
    /\ method = [i \in Inv |-> ""]
    /\ args = [i \in Inv |-> NoArgs]
    /\ req = [i \in Inv |-> NoRequest]
    /\ pc = [i \in Inv |-> "idle"]
    /\ nsent = [i \in Inv |-> 0]
    /\ stream = [i \in Inv |-> <<>>]
    /\ chunks = [i \in Inv |-> <<>>]
    /\ result = [i \in Inv |-> NoResult]
    /\ cause = [i \in Inv |-> NoCause]
    /\ got = [i \in Inv |-> <<>>]
    /\ put = [i \in Inv |-> Absent]
    /\ resp = [i \in Inv |-> NoContents]
    /\ upl = [o \in ObjRefs |-> Absent]
    /\ clean = [i \in Inv |-> TRUE]
    /\ expect = [i \in Inv |-> Absent]

\* The object a command addresses.
RefOf(r) == <<r.Bucket, r.Key>>

\* The invocation enters a method, builds its command and calls send once.
Call(i, m, a, r) ==
    /\ pc[i] = "idle"
    /\ method' = [method EXCEPT ![i] = m]
    /\ args' = [args EXCEPT ![i] = a]
    /\ req' = [req EXCEPT ![i] = r]
    /\ nsent' = [nsent EXCEPT ![i] = @ + 1]
    /\ pc' = [pc EXCEPT ![i] = "sent"]

\* The promise settles.
Settle(i, r) ==
    /\ result' = [result EXCEPT ![i] = r]
    /\ pc' = [pc EXCEPT ![i] = "done"]

\* -------------------------------------------------------------- uploadToS3
\* The uploads to object o that have called send and not yet settled.
UploadsInFlight(o) ==
    {j \in Inv : method[j] = "uploadToS3" /\ pc[j] \in {"sent", "stored"} /\ RefOf(req[j]) = o}

CallUpload(i, bucketName, filePath, data, mimeType) ==
    LET r == PutInput(bucketName, filePath, data, mimeType)
        others == UploadsInFlight(RefOf(r))
    IN  /\ Call(i, "uploadToS3",
                [bucketName |-> bucketName, filePath |-> filePath, data |-> data,
                 mimeType |-> mimeType, prefix |-> <<>>], r)
        /\ clean' = [j \in Inv |-> IF j = i THEN others = {}
                                   ELSE IF j \in others THEN FALSE ELSE clean[j]]
        /\ upl' = [upl EXCEPT ![RefOf(r)] = Absent]
        /\ UNCHANGED <<client, store, stream, chunks, result, cause, got, put, resp, expect>>

\* The store writes the object of a PutObject command, whole and at once.
StorePut(i) ==
    /\ method[i] = "uploadToS3" /\ pc[i] = "sent"
    /\ store' = [store EXCEPT ![RefOf(req[i])] = Object(req[i].Body)]
    /\ put' = [put EXCEPT ![i] = Object(req[i].Body)]
    /\ pc' = [pc EXCEPT ![i] = "stored"]
    /\ UNCHANGED <<client, method, args, req, nsent, stream, chunks, result, cause, got,
                   resp, upl, clean, expect>>

\* send resolves: return await this.s3Client.send(command)
UploadResolve(i) ==
    /\ method[i] = "uploadToS3" /\ pc[i] = "stored"
    /\ Settle(i, Metadata)
    /\ upl' = [upl EXCEPT ![RefOf(req[i])] = IF clean[i] THEN Object(args[i].data) ELSE @]
    /\ UNCHANGED <<client, store, method, args, req, nsent, stream, chunks, cause, got, put,
                   resp, clean, expect>>

\* send rejects: the store refused the command, or the exchange broke before
\* or after the store wrote the object.
UploadReject(i, error) ==
    /\ method[i] = "uploadToS3"
    /\ \/ pc[i] = "sent"
       \/ pc[i] = "stored" /\ error = NetworkFailure
    /\ cause' = [cause EXCEPT ![i] = Raised("send", error)]
    /\ Settle(i, UploadCatch(error))
    /\ UNCHANGED <<client, store, method, args, req, nsent, stream, chunks, got, put, resp,
                   upl, clean, expect>>

\* ------------------------------------------- getFromS3, getFromS3AsBinary
CallGet(i, m, bucketName, filePath) ==
    /\ Call(i, m,
            [bucketName |-> bucketName, filePath |-> filePath, data |-> <<>>,
             mimeType |-> "", prefix |-> <<>>],
            GetInput(bucketName, filePath))
    /\ UNCHANGED <<client, store, stream, chunks, result, cause, got, put, resp, upl, clean,
                   expect>>

IsGet(i) == method[i] \in {"getFromS3", "getFromS3AsBinary"}

\* send rejects: no such object, or the store or the network failed.
GetReject(i, error) ==
    /\ IsGet(i) /\ pc[i] = "sent"
    /\ error = NoSuchKey => ~store[RefOf(req[i])].present
    /\ cause' = [cause EXCEPT ![i] = Raised("send", error)]
    /\ Settle(i, DownloadCatch(error))
    /\ UNCHANGED <<client, store, method, args, req, nsent, stream, chunks, got, put, resp,
                   upl, clean, expect>>

\* send resolves with a Readable body: the object as the store holds it now.
GetRespond(i) ==
    /\ IsGet(i) /\ pc[i] = "sent"
    /\ store[RefOf(req[i])].present
    /\ stream' = [stream EXCEPT ![i] = store[RefOf(req[i])].bytes]
    /\ expect' = [expect EXCEPT ![i] = upl[RefOf(req[i])]]
    /\ pc' = [pc EXCEPT ![i] = "stream"]
    /\ UNCHANGED <<client, store, method, args, req, nsent, chunks, result, cause, got, put,
                   resp, upl, clean>>

\* send resolves with a body that is no Readable (absent, or of another type).
GetRespondNoStream(i) ==
    /\ IsGet(i) /\ pc[i] = "sent"
    /\ cause' = [cause EXCEPT ![i] = Raised("body", UnexpectedBody)]
    /\ Settle(i, NoStreamBody(method[i]))
    /\ UNCHANGED <<client, store, method, args, req, nsent, stream, chunks, got, put, resp,
                   upl, clean, expect>>

\* The stream delivers its next n bytes as one chunk: chunks.push(chunk)
StreamChunk(i, n) ==
    /\ IsGet(i) /\ pc[i] = "stream"
    /\ ~LoopEnded(stream[i], chunks[i])
    /\ n \in 1..Len(stream[i])
    /\ chunks' = Push(chunks, i, SubSeq(stream[i], 1, n))
    /\ got' = [got EXCEPT ![i] = Append(@, SubSeq(stream[i], 1, n))]
    /\ stream' = [stream EXCEPT ![i] = SubSeq(@, n + 1, Len(@))]
    /\ UNCHANGED <<client, store, method, args, req, pc, nsent, result, cause, put, resp,
                   upl, clean, expect>>

\* The stream ends, the loop is left and the chunks are returned as one value.
StreamEnd(i) ==
    /\ IsGet(i) /\ pc[i] = "stream"
    /\ LoopEnded(stream[i], chunks[i])
    /\ Settle(i, Drained(method[i], chunks[i]))
    /\ UNCHANGED <<client, store, method, args, req, nsent, stream, chunks, cause, got, put,
                   resp, upl, clean, expect>>

\* The stream fails before its end: the for-await loop throws.
StreamError(i, error) ==
    /\ IsGet(i) /\ pc[i] = "stream"
    /\ stream[i] # <<>>
    /\ cause' = [cause EXCEPT ![i] = Raised("stream", error)]
    /\ Settle(i, DownloadCatch(error))
    /\ UNCHANGED <<client, store, method, args, req, nsent, stream, chunks, got, put, resp,
                   upl, clean, expect>>

\* -------------------------------------------------------- getMostRecentFile
CallMostRecent(i, bucketName, prefix) ==
    /\ Call(i, "getMostRecentFile",
            [bucketName |-> bucketName, filePath |-> "", data |-> <<>>, mimeType |-> "",
             prefix |-> prefix],
            ListInput(bucketName, prefix))
    /\ UNCHANGED <<client, store, stream, chunks, result, cause, got, put, resp, upl, clean,
                   expect>>

\* send rejects.
ListReject(i, error) ==
    /\ method[i] = "getMostRecentFile" /\ pc[i] = "sent"
    /\ cause' = [cause EXCEPT ![i] = Raised("send", error)]
    /\ Settle(i, ListFailure(error))
    /\ UNCHANGED <<client, store, method, args, req, nsent, stream, chunks, got, put, resp,
                   upl, clean, expect>>

\* send resolves with one listing page; the rest of the method runs to its end.
ListRespond(i, contents) ==
    /\ method[i] = "getMostRecentFile" /\ pc[i] = "sent"
    /\ resp' = [resp EXCEPT ![i] = contents]
    /\ \E r \in MostRecentResults(contents) : Settle(i, r)
    /\ UNCHANGED <<client, store, method, args, req, nsent, stream, chunks, cause, got, put,
                   upl, clean, expect>>

\* ------------------------------------------------------------------ callers
\* The caller has taken the settled promise; the invocation is over.
Forget(i) ==
    /\ pc[i] = "done"
    /\ method' = [method EXCEPT ![i] = ""]
    /\ args' = [args EXCEPT ![i] = NoArgs]
    /\ req' = [req EXCEPT ![i] = NoRequest]
    /\ pc' = [pc EXCEPT ![i] = "idle"]
    /\ nsent' = [nsent EXCEPT ![i] = 0]
    /\ stream' = [stream EXCEPT ![i] = <<>>]
    /\ chunks' = [chunks EXCEPT ![i] = <<>>]
    /\ result' = [result EXCEPT ![i] = NoResult]
    /\ cause' = [cause EXCEPT ![i] = NoCause]
    /\ got' = [got EXCEPT ![i] = <<>>]
    /\ put' = [put EXCEPT ![i] = Absent]
    /\ resp' = [resp EXCEPT ![i] = NoContents]
    /\ clean' = [clean EXCEPT ![i] = TRUE]
    /\ expect' = [expect EXCEPT ![i] = Absent]
    /\ UNCHANGED <<client, store, upl>>

SendFailures == {NetworkFailure, AccessDenied}
FewContents == ContentsOf(FewKeys)
AllContents == ContentsOf(ListedKeys)
Gets == {"getFromS3", "getFromS3AsBinary"}

\* Every method, two callers, one object.
Next ==
    \E i \in Inv :
        \/ \E o \in OneRef, d \in Payloads, t \in ContentTypes : CallUpload(i, o[1], o[2], d, t)
        \/ StorePut(i)
        \/ UploadResolve(i)
        \/ \E e \in SendFailures : UploadReject(i, e)
        \/ \E m \in Gets, o \in OneRef : CallGet(i, m, o[1], o[2])
        \/ \E e \in SendFailures \cup {NoSuchKey} : GetReject(i, e)
        \/ GetRespond(i)
        \/ GetRespondNoStream(i)
        \/ \E n \in 1..Len(stream[i]) : StreamChunk(i, n)
        \/ StreamEnd(i)
        \/ StreamError(i, NetworkFailure)
        \/ \E b \in Buckets, p \in Prefixes : CallMostRecent(i, b, p)
        \/ \E e \in SendFailures : ListReject(i, e)
        \/ \E c \in FewContents : ListRespond(i, c)
        \/ Forget(i)

Spec == Init /\ [][Next]_vars

\* Uploads and binary downloads, two callers, two objects.
NextObjects ==
    \E i \in Inv :
        \/ \E o \in ObjRefs, d \in Payloads, t \in ContentTypes : CallUpload(i, o[1], o[2], d, t)
        \/ StorePut(i)
        \/ UploadResolve(i)
        \/ \E e \in SendFailures : UploadReject(i, e)
        \/ \E o \in ObjRefs : CallGet(i, "getFromS3AsBinary", o[1], o[2])
        \/ \E e \in SendFailures \cup {NoSuchKey} : GetReject(i, e)
        \/ GetRespond(i)
        \/ GetRespondNoStream(i)
        \/ \E n \in 1..Len(stream[i]) : StreamChunk(i, n)
        \/ StreamEnd(i)
        \/ StreamError(i, NetworkFailure)
        \/ Forget(i)

SpecObjects == Init /\ [][NextObjects]_vars

\* One caller of getMostRecentFile, over every listing of the listed keys.
NextList ==
    \/ \E b \in Buckets, p \in Prefixes : CallMostRecent(1, b, p)
    \/ \E e \in SendFailures : ListReject(1, e)
    \/ \E c \in AllContents : ListRespond(1, c)
    \/ Forget(1)

SpecList == Init /\ [][NextList]_vars

\* ------------------------------------------------------------------ claims
Done(i) == pc[i] = "done"
Failed(i) == result[i].tag = "error"
Returned(i) == Done(i) /\ ~Failed(i)

\* An Error made by uploadToS3's catch block around the message of e.
IsUploadErrorOf(x, e) ==
    x.origin = "S3Service" /\ x.message = <<UploadPrefix>> \o e.message

\* An Error made by the catch block of getFromS3 or getFromS3AsBinary around
\* the message of e.
IsDownloadErrorOf(x, e) ==
    x.origin = "S3Service" /\ x.message = <<DownloadPrefix>> \o e.message

\* C1: a binary download answered while the object's last upload is one that
\* completed successfully, with no other upload to the object during it or
\* since, returns exactly the bytes passed to that upload, however the store
\* cut the body into chunks.
C1_RoundTrip ==
    \A i \in Inv :
        (method[i] = "getFromS3AsBinary" /\ Returned(i) /\ expect[i].present)
            => (result[i].tag = "binary" /\ result[i].val = expect[i].bytes)

\* Reached: the two bytes of U+00E9 uploaded, then downloaded in two chunks.
C1_Witness ==
    \E i \in Inv :
        /\ method[i] = "getFromS3AsBinary" /\ Returned(i) /\ expect[i].present
        /\ got[i] = <<(<<195>>), (<<169>>)>>
        /\ result[i].val = <<195, 169>>

\* C2 as stated: a failed upload is an UploadError around the cause's message
\* and the store has written nothing on its behalf.
C2_FailedUploadWritesNothing ==
    \A i \in Inv :
        (method[i] = "uploadToS3" /\ Done(i) /\ cause[i].at = "send")
            => /\ Failed(i)
               /\ IsUploadErrorOf(result[i].error, cause[i].error)
               /\ ~put[i].present

\* C2 amended: a failed upload is an UploadError around the cause's message,
\* and the store has on its behalf written either nothing or the whole
\* payload, never a part of it.
C2_FailedUploadIsAtomic ==
    \A i \in Inv :
        (method[i] = "uploadToS3" /\ Done(i) /\ cause[i].at = "send")
            => /\ Failed(i)
               /\ IsUploadErrorOf(result[i].error, cause[i].error)
               /\ put[i].present => put[i].bytes = args[i].data

\* Reached: an upload that failed after the store had written its payload.
C2_Witness ==
    \E i \in Inv :
        /\ method[i] = "uploadToS3" /\ Done(i) /\ cause[i].at = "send"
        /\ put[i].present /\ put[i].bytes = <<195, 169>>
        /\ store[RefOf(req[i])] = Object(<<195, 169>>)

\* C3: a get answered with a body that is no readable stream fails with a
\* DownloadError; it returns no value and no other kind of error.
C3_NoStreamIsDownloadError ==
    \A i \in Inv :
        (IsGet(i) /\ Done(i) /\ cause[i].at = "body")
            => /\ Failed(i)
               /\ IsDownloadErrorOf(result[i].error, UnexpectedBody)

\* Reached: both methods settled on a body that is no stream.
C3_Witness ==
    \E i, j \in Inv :
        /\ method[i] = "getFromS3" /\ Done(i) /\ cause[i].at = "body"
        /\ method[j] = "getFromS3AsBinary" /\ Done(j) /\ cause[j].at = "body"

HasUnderscore(key) == \E n \in 1..Len(key) : key[n] = "_"
Listed(i) == {resp[i].keys[n] : n \in 1..Len(resp[i].keys)}
Qualifying(i) == {k \in Listed(i) : HasUnderscore(k)}
Listing(i) == method[i] = "getMostRecentFile" /\ Done(i) /\ cause[i].at = "none"

\* C4: on a successful listing getMostRecentFile returns the sentinel exactly
\* when the listing is absent or empty or holds no key with an underscore,
\* and returns a listed key otherwise; it does not fail.
C4_SentinelCases ==
    \A i \in Inv :
        Listing(i)
            => /\ ~Failed(i)
               /\ (result[i].tag = "undefined") = (Qualifying(i) = {})
               /\ Qualifying(i) # {} => (result[i].tag = "key" /\ result[i].key \in Listed(i))

\* Reached: the sentinel for a listing of two keys, none with an underscore.
C4_Witness ==
    /\ Listing(1)
    /\ resp[1].keys = <<KeyPlain, KeyPlainDec>>
    /\ result[1].tag = "undefined"

DateOf(key) == GetTime(DateToken(key))
\* b carries a date and a carries none or one before it.
Earlier(a, b) == ~DateOf(b).nan /\ (DateOf(a).nan \/ DateOf(a).time < DateOf(b).time)

\* C5: on a listing with a key that has an underscore, the result is such a
\* key of the listing and no other such key carries a later date.
C5_LatestQualifying ==
    \A i \in Inv :
        (Listing(i) /\ Qualifying(i) # {})
            => /\ result[i].tag = "key"
               /\ result[i].key \in Qualifying(i)
               /\ \A k \in Qualifying(i) : ~Earlier(result[i].key, k)

\* The qualifying keys that carry the latest date of the listing.
Latest(i) ==
    {k \in Qualifying(i) :
        /\ ~DateOf(k).nan
        /\ \A o \in Qualifying(i) : ~Earlier(k, o)}
Position(i, k) == CHOOSE n \in 1..Len(resp[i].keys) : resp[i].keys[n] = k

\* C6: when several qualifying keys share the latest date, the result is the
\* one of them that the listing holds first.
C6_FirstOfLatest ==
    \A i \in Inv :
        (Listing(i) /\ Cardinality(Latest(i)) >= 2)
            => /\ result[i].tag = "key"
               /\ result[i].key \in Latest(i)
               /\ \A k \in Latest(i) : Position(i, result[i].key) <= Position(i, k)

\* C7: getMostRecentFile fails exactly when its listing call fails, and then
\* with the very error the call raised; the other three methods replace every
\* error they meet by one of their own around its message.
C7_ListingErrorUnwrapped ==
    \A i \in Inv :
        Done(i) =>
            IF method[i] = "getMostRecentFile"
            THEN /\ Failed(i) = (cause[i].at = "send")
                 /\ Failed(i) => result[i].error = cause[i].error
            ELSE cause[i].at # "none" =>
                    /\ Failed(i)
                    /\ result[i].error # cause[i].error
                    /\ IF method[i] = "uploadToS3"
                       THEN IsUploadErrorOf(result[i].error, cause[i].error)
                       ELSE IsDownloadErrorOf(result[i].error, cause[i].error)

\* Reached: a listing that failed next to an upload that failed.
C7_Witness ==
    \E i, j \in Inv :
        /\ method[i] = "getMostRecentFile" /\ Done(i) /\ cause[i].at = "send"
        /\ result[i].error = AccessDenied
        /\ method[j] = "uploadToS3" /\ Done(j) /\ cause[j].at = "send"

\* C8: an invocation has called send exactly once from its call on, whether
\* the request succeeds or fails, and one whose request failed has settled
\* with an error.
C8_OneRequestNoSuppression ==
    \A i \in Inv :
        /\ pc[i] # "idle" => nsent[i] = 1
        /\ (Done(i) /\ cause[i].at = "send") => Failed(i)
        /\ cause[i].at = "send" => Done(i)

\* Reached: each kind of method settled after a failed request.
C8_Witness ==
    \E i, j \in Inv :
        /\ Done(i) /\ cause[i].at = "send" /\ method[i] = "getMostRecentFile"
        /\ Done(j) /\ cause[j].at = "send" /\ method[j] = "getFromS3" /\ nsent[j] = 1

\* C9: a get returns a value only when the stream has delivered the whole
\* body, the value being the chunks delivered, joined in order (and decoded
\* as UTF-8 by getFromS3); a stream that fails midway gives a DownloadError.
C9_FullDrain ==
    \A i \in Inv :
        (IsGet(i) /\ Done(i)) =>
            /\ ~Failed(i) =>
                  /\ stream[i] = <<>>
                  /\ cause[i].at = "none"
                  /\ method[i] = "getFromS3" =>
                        (result[i].tag = "text"
                            /\ result[i].val = Utf8Decode(BufferConcat(got[i])))
                  /\ method[i] = "getFromS3AsBinary" =>
                        (result[i].tag = "binary" /\ result[i].val = BufferConcat(got[i]))
            /\ cause[i].at = "stream" =>
                  /\ Failed(i)
                  /\ IsDownloadErrorOf(result[i].error, cause[i].error)

\* Reached: U+00E9 returned as text from two one-byte chunks, next to a
\* download whose stream failed after its first chunk.
C9_Witness ==
    \E i, j \in Inv :
        /\ method[i] = "getFromS3" /\ Returned(i)
        /\ got[i] = <<(<<195>>), (<<169>>)>> /\ result[i].val = <<233>>
        /\ IsGet(j) /\ Done(j) /\ cause[j].at = "stream" /\ Len(got[j]) = 1

\* What the invocation holds of its own.
Local(i) == <<method[i], args[i], req[i], pc[i], nsent[i], stream[i], chunks[i], result[i]>>

\* The value an invocation returns, as its own response determines it.
OwnResult(i) ==
    CASE method[i] = "uploadToS3" -> result[i] = Metadata
      [] IsGet(i) -> result[i] = Drained(method[i], got[i])
      [] method[i] = "getMostRecentFile" -> result[i] \in MostRecentResults(resp[i])
      [] OTHER -> FALSE

\* C10: no step changes the client's fields, a step changes what at most one
\* invocation holds, and what an invocation returns is determined by the
\* response to its own request.
C10_Stateless ==
    /\ [](\A i \in Inv : Returned(i) => OwnResult(i))
    /\ [][/\ client' = client
          /\ \A i, j \in Inv : i # j => (Local(i)' = Local(i) \/ Local(j)' = Local(j))]_vars

\* Reached: two downloads of different content, each amid its stream.
C10_Witness ==
    \E i, j \in Inv :
        /\ IsGet(i) /\ pc[i] = "stream" /\ chunks[i] = <<(<<195>>)>> /\ stream[i] = <<169>>
        /\ IsGet(j) /\ pc[j] = "stream" /\ chunks[j] = <<(<<169>>)>> /\ stream[j] = <<>>

====
